---- MODULE Spec2Model ----
(***************************************************************************)
(* SecureOTP: the OTP store of src/src/services/otpManager.ts              *)
(* (generateOtp, validateOtp, getRemainingSeconds, getRemainingAttempts,   *)
(* clearOtp) driven by a wall clock read through Date.now(), and the       *)
(* session timer of src/src/hooks/useSessionTimer.ts with the persisted    *)
(* anchor of src/src/services/analytics.ts and the recovery of             *)
(* SessionScreen.initSession.                                              *)
(*                                                                         *)
(* Strings are sequences of one-character strings, so that padStart, trim  *)
(* and the strict comparison of the stored code with the trimmed candidate *)
(* are computed the way the code computes them.                            *)
(***************************************************************************)
EXTENDS Integers, Sequences, FiniteSets, TLC

\* ---------------------------------------------------------------- constants

OTP_LENGTH == 6

OTP_EXPIRY_MS == 60 * 1000

MAX_ATTEMPTS == 3

\* ------------------------------------------------------------------- bounds

\* how many times the wall clock is observed to have moved
MaxClockSteps == 2

\* the amounts by which the clock moves between two calls (milliseconds)
ClockDeltas == {1, OTP_EXPIRY_MS}

\* the identities (Map keys) that callers use
Emails == {"a@x.com", "b@x.com"}

\* the values floor(Math.random() * 10^6) takes in the model
RawValues == {42, 123456}

\* Date.now() when the session timer is first used
TimerEpoch == 100000

\* the amounts by which the clock moves while a timer is observed
TimerDeltas == {65000}

\* fire-and-forget storage operations in flight at once
MaxPending == 2

\* periodic tasks alive at once before another screen is mounted
MaxIntervals == 2

\* how often the process is killed and launched again
MaxRestarts == 1

\* ------------------------------------------------------------------ strings

DigitChars == <<"0", "1", "2", "3", "4", "5", "6", "7", "8", "9">>

WhiteSpace == {" ", "\t", "\n"}

RECURSIVE NumberToString(_)
NumberToString(n) ==
    IF n < 10 THEN <<DigitChars[n + 1]>>
    ELSE NumberToString(n \div 10) \o <<DigitChars[(n % 10) + 1]>>

RECURSIVE PadStart(_, _, _)
PadStart(s, targetLength, padChar) ==
    IF Len(s) >= targetLength THEN s
    ELSE PadStart(<<padChar>> \o s, targetLength, padChar)

RECURSIVE TrimStart(_)
TrimStart(s) ==
    IF s # <<>> /\ Head(s) \in WhiteSpace THEN TrimStart(Tail(s)) ELSE s

RECURSIVE TrimEnd(_)
TrimEnd(s) ==
    IF s # <<>> /\ s[Len(s)] \in WhiteSpace
    THEN TrimEnd(SubSeq(s, 1, Len(s) - 1)) ELSE s

Trim(s) == TrimEnd(TrimStart(s))

\* parseInt(s, 10) of a string of decimal digits; NaN for anything else
NaN == -1

DigitValue(c) == CHOOSE d \in 0..9 : DigitChars[d + 1] = c

IsDigits(s) ==
    /\ s # <<>>
    /\ \A i \in 1..Len(s) : \E d \in 0..9 : DigitChars[d + 1] = s[i]

RECURSIVE DigitsValue(_)
DigitsValue(s) ==
    IF s = <<>> THEN 0
    ELSE DigitsValue(SubSeq(s, 1, Len(s) - 1)) * 10 + DigitValue(s[Len(s)])

ParseInt(s) == IF IsDigits(s) THEN DigitsValue(s) ELSE NaN

\* Math.ceil(a / b) for a > 0, b > 0
CeilDiv(a, b) == (a + b - 1) \div b

\* Math.max
Max(a, b) == IF a >= b THEN a ELSE b

\* ---------------------------------------------------------------- Map<K, V>

MapSet(m, k, v) == [x \in (DOMAIN m) \cup {k} |-> IF x = k THEN v ELSE m[x]]

MapDelete(m, k) == [x \in (DOMAIN m) \ {k} |-> m[x]]

EmptyMap == [x \in {} |-> 0]

\* --------------------------------------------------------------- OtpManager

\* createRandomCode with raw = Math.floor(Math.random() * max)
createRandomCode(raw) == PadStart(NumberToString(raw), OTP_LENGTH, "0")

\* the codes generateOtp can return in the model
Codes == {createRandomCode(raw) : raw \in RawValues}

\* what a caller may type: codes, a code with surrounding blanks, a number
\* without its leading zeros, the empty string and a blank
Candidates ==
    Codes
    \cup {<<" ">> \o createRandomCode(42) \o <<" ">>}
    \cup {NumberToString(42), <<>>, <<" ">>}

NewRecord(code, t) == [code |-> code, createdAt |-> t, attempts |-> 0]

\* generateOtp that keeps a record already on file
generateOtpStore_keepOld(st, email, code, t) ==
    IF email \in DOMAIN st THEN st ELSE MapSet(st, email, NewRecord(code, t))

\* the store after generateOtp(email) drew `code` at time t
generateOtpStore(st, email, code, t) == MapSet(st, email, NewRecord(code, t))

\* expiry test with >= in place of >
IsExpired_atBoundary(record, t) == t - record.createdAt >= OTP_EXPIRY_MS

IsExpired(record, t) == t - record.createdAt > OTP_EXPIRY_MS

\* lock test with > in place of >=
IsLocked_offByOne(record) == record.attempts > MAX_ATTEMPTS

IsLocked(record) == record.attempts >= MAX_ATTEMPTS

\* comparison by prefix, which the empty string passes
CodeMismatch_prefix(record, code) ==
    LET c == Trim(code)
    IN  ~(Len(c) <= Len(record.code) /\ SubSeq(record.code, 1, Len(c)) = c)

CodeMismatch(record, code) == record.code # Trim(code)

Outcome(reason, st) == [reason |-> reason, store |-> st]

\* a missing record reported as an expired one
NoOtpOutcome_asExpired(st, email) == Outcome("expired", st)

NoOtpOutcome(st, email) == Outcome("no_otp", st)

\* expiry reported without the cleanup
ExpiredOutcome_noCleanup(st, email) == Outcome("expired", st)

ExpiredOutcome(st, email) == Outcome("expired", MapDelete(st, email))

\* a locked record that keeps counting the attempts made on it
LockedOutcome_counting(st, email) ==
    Outcome("max_attempts", [st EXCEPT ![email].attempts = @ + 1])

LockedOutcome(st, email) == Outcome("max_attempts", st)

\* the attempt that crosses the limit still reported as incorrect
MismatchOutcome_lateLock(st, email) ==
    LET st1 == [st EXCEPT ![email].attempts = @ + 1]
    IN  IF st1[email].attempts > MAX_ATTEMPTS
        THEN Outcome("max_attempts", st1)
        ELSE Outcome("incorrect", st1)

MismatchOutcome(st, email) ==
    LET st1 == [st EXCEPT ![email].attempts = @ + 1]
    IN  IF st1[email].attempts >= MAX_ATTEMPTS
        THEN Outcome("max_attempts", st1)
        ELSE Outcome("incorrect", st1)

\* success that empties the whole store
SuccessOutcome_clearAll(st, email) == Outcome("success", EmptyMap)

\* success that leaves the record on file
SuccessOutcome_noDelete(st, email) == Outcome("success", st)

SuccessOutcome(st, email) == Outcome("success", MapDelete(st, email))

\* validateOtp with the attempt check ahead of the expiry check
validateOtpResult_lockFirst(st, t, email, code) ==
    IF email \notin DOMAIN st THEN NoOtpOutcome(st, email)
    ELSE IF IsLocked(st[email]) THEN LockedOutcome(st, email)
    ELSE IF IsExpired(st[email], t) THEN ExpiredOutcome(st, email)
    ELSE IF CodeMismatch(st[email], code) THEN MismatchOutcome(st, email)
    ELSE SuccessOutcome(st, email)

\* validateOtp that compares the code before it looks at the age
validateOtpResult_compareFirst(st, t, email, code) ==
    IF email \notin DOMAIN st THEN NoOtpOutcome(st, email)
    ELSE IF ~CodeMismatch(st[email], code) /\ ~IsLocked(st[email])
         THEN SuccessOutcome(st, email)
    ELSE IF IsExpired(st[email], t) THEN ExpiredOutcome(st, email)
    ELSE IF IsLocked(st[email]) THEN LockedOutcome(st, email)
    ELSE MismatchOutcome(st, email)

\* validateOtp(email, code) called at time t on store st: the reason it
\* returns ("success" for {success: true}) and the store it leaves
validateOtpResult(st, t, email, code) ==
    IF email \notin DOMAIN st THEN NoOtpOutcome(st, email)
    ELSE IF IsExpired(st[email], t) THEN ExpiredOutcome(st, email)
    ELSE IF IsLocked(st[email]) THEN LockedOutcome(st, email)
    ELSE IF CodeMismatch(st[email], code) THEN MismatchOutcome(st, email)
    ELSE SuccessOutcome(st, email)

\* remaining seconds without the clamp at 0
getRemainingSecondsValue_noClamp(st, t, email) ==
    IF email \notin DOMAIN st THEN 0
    ELSE LET elapsed == t - st[email].createdAt
             remaining == OTP_EXPIRY_MS - elapsed
         IN  CeilDiv(remaining, 1000)

\* remaining seconds rounded down
getRemainingSecondsValue_floor(st, t, email) ==
    IF email \notin DOMAIN st THEN 0
    ELSE LET elapsed == t - st[email].createdAt
             remaining == OTP_EXPIRY_MS - elapsed
         IN  IF remaining > 0 THEN remaining \div 1000 ELSE 0

getRemainingSecondsValue(st, t, email) ==
    IF email \notin DOMAIN st THEN 0
    ELSE LET elapsed == t - st[email].createdAt
             remaining == OTP_EXPIRY_MS - elapsed
         IN  IF remaining > 0 THEN CeilDiv(remaining, 1000) ELSE 0

\* a full budget reported when nothing is on file
getRemainingAttemptsValue_noRecordFull(st, email) ==
    IF email \notin DOMAIN st THEN MAX_ATTEMPTS
    ELSE Max(0, MAX_ATTEMPTS - st[email].attempts)

getRemainingAttemptsValue(st, email) ==
    IF email \notin DOMAIN st THEN 0
    ELSE Max(0, MAX_ATTEMPTS - st[email].attempts)

\* store.clear() in place of store.delete(email)
clearOtpStore_all(st, email) == EmptyMap

clearOtpStore(st, email) == MapDelete(st, email)

\* -------------------------------------------------------------------- state

VARIABLES
    now,        \* Date.now()
    clockSteps, \* how often the clock has moved
    store,      \* OtpManager.store: email -> OtpRecord
    last,       \* the call that produced this state, with what it found
    issued,     \* history: identities with a generateOtp since their last success
    mounted,         \* a SessionScreen (one useSessionTimer instance) is mounted
    elapsed,         \* useSessionTimer: the elapsed state, "mm:ss"
    sessionStartRef, \* useSessionTimer: <<>> for null, <<anchor>> otherwise
    intervalRef,     \* useSessionTimer: TRUE when it holds an interval handle
    intervals,       \* periodic tasks created by setInterval and not cleared
    queued,          \* a tick callback has been dispatched and has not run yet
    initPc,          \* SessionScreen.initSession: "none", "reading", "done"
    storage,         \* AsyncStorage[SESSION_KEY]: <<>> or <<string>>
    pendingOps,      \* AsyncStorage requests in flight (they settle in any order)
    restarts,        \* how often the process was killed and launched again
    orphaned,        \* periodic tasks alive that older hook instances created
    otpScreen,       \* the mounted OtpScreen: <<>> or <<email>>
    countdown,       \* useOtp: the countdown state, in seconds
    countdownRef,    \* useOtp: TRUE when it holds a polling interval handle
    polls,           \* polling intervals created and not cleared
    initialized,     \* AnalyticsService.initialized
    logs,            \* AnalyticsService.logs
    persistedLog,    \* AsyncStorage[ANALYTICS_KEY]: <<>> or <<string>>
    logTasks,        \* init / logEvent calls suspended at an await
    calls,           \* history: how many logEvent calls were made
    verified         \* useOtp: verified, <<>> for false and <<t>> for true,
                     \* t being the time of the validateOtp that succeeded

otpVars == <<store, issued>>

timerVars == <<mounted, elapsed, sessionStartRef, intervalRef, intervals,
               queued, initPc, storage, pendingOps, restarts, orphaned>>

appVars == <<otpScreen, countdown, countdownRef, polls, initialized, logs,
             persistedLog, logTasks, calls, verified>>

vars == <<now, clockSteps, store, last, issued, mounted, elapsed,
          sessionStartRef, intervalRef, intervals, queued, initPc, storage,
          pendingOps, restarts, orphaned, otpScreen, countdown, countdownRef,
          polls, initialized, logs, persistedLog, logTasks, calls, verified>>

\* the record a call found for its email: <<>> or <<record>>
Found(email) == IF email \in DOMAIN store THEN <<store[email]>> ELSE <<>>

Call(op, email, code, reason, ret, num, found) ==
    [op |-> op, email |-> email, code |-> code, reason |-> reason,
     ret |-> ret, num |-> num, found |-> found, at |-> now]

NoCall == [op |-> "none", email |-> "", code |-> <<>>, reason |-> "",
           ret |-> <<>>, num |-> 0, found |-> <<>>, at |-> 0]

\* formatElapsed(0), the initial value of the elapsed state
ZeroElapsed == <<"0", "0", ":", "0", "0">>

\* memory of a freshly launched process with no SessionScreen mounted
TimerInit ==
    /\ mounted = FALSE
    /\ elapsed = ZeroElapsed
    /\ sessionStartRef = <<>>
    /\ intervalRef = FALSE
    /\ intervals = 0
    /\ queued = FALSE
    /\ initPc = "none"
    /\ storage = <<>>
    /\ pendingOps = {}
    /\ restarts = 0
    /\ orphaned = 0

\* a call suspended in init() at `await AsyncStorage.getItem`: n is the
\* number of the logEvent call it belongs to, ev its payload (<<>> for a
\* bare init() call)
ReadTask(n, ev) == [n |-> n, ev |-> ev, pc |-> "read", data |-> <<>>]

\* a logEvent call suspended at `await AsyncStorage.setItem` with the
\* string it hands over
WriteTask(n, data) == [n |-> n, ev |-> <<>>, pc |-> "write", data |-> <<data>>]

\* App.tsx calls analyticsService.init() when the app is launched
AppInitTask == ReadTask(0, <<>>)

\* useState(60) in useOtp
InitialCountdown == 60

\* memory of a freshly launched process on the login screen
AppInit ==
    /\ otpScreen = <<>>
    /\ countdown = InitialCountdown
    /\ countdownRef = FALSE
    /\ polls = 0
    /\ initialized = FALSE
    /\ logs = <<>>
    /\ persistedLog = <<>>
    /\ logTasks = {AppInitTask}
    /\ calls = 0
    /\ verified = <<>>

Init ==
    /\ now = 0
    /\ clockSteps = 0
    /\ store = EmptyMap
    /\ last = NoCall
    /\ issued = {}
    /\ TimerInit
    /\ AppInit

\* time passes between two calls
Advance ==
    /\ clockSteps < MaxClockSteps
    /\ \E d \in ClockDeltas : now' = now + d
    /\ clockSteps' = clockSteps + 1
    /\ last' = NoCall
    /\ UNCHANGED <<store, issued>>
    /\ UNCHANGED timerVars
    /\ UNCHANGED appVars

generateOtp(email) ==
    \E raw \in RawValues :
        LET code == createRandomCode(raw)
        IN  /\ store' = generateOtpStore(store, email, code, now)
            /\ last' = Call("generateOtp", email, <<>>, "", code, 0, Found(email))
            /\ issued' = issued \cup {email}
            /\ UNCHANGED <<now, clockSteps>>
            /\ UNCHANGED timerVars
            /\ UNCHANGED appVars

validateOtp(email, code) ==
    LET result == validateOtpResult(store, now, email, code)
    IN  /\ store' = result.store
        /\ last' = Call("validateOtp", email, code, result.reason, <<>>, 0, Found(email))
        /\ issued' = IF result.reason = "success" THEN issued \ {email} ELSE issued
        /\ UNCHANGED <<now, clockSteps>>
        /\ UNCHANGED timerVars
        /\ UNCHANGED appVars

\* a poll that also removes the record it finds expired
getRemainingSeconds_cleanup(email) ==
    /\ last' = Call("getRemainingSeconds", email, <<>>, "", <<>>,
                    getRemainingSecondsValue(store, now, email), Found(email))
    /\ store' = IF email \in DOMAIN store /\ IsExpired(store[email], now)
                THEN MapDelete(store, email) ELSE store
    /\ UNCHANGED <<now, clockSteps, issued>>
    /\ UNCHANGED timerVars
    /\ UNCHANGED appVars

getRemainingSeconds(email) ==
    /\ last' = Call("getRemainingSeconds", email, <<>>, "", <<>>,
                    getRemainingSecondsValue(store, now, email), Found(email))
    /\ UNCHANGED <<now, clockSteps, store, issued>>
    /\ UNCHANGED appVars
    /\ UNCHANGED timerVars
    /\ UNCHANGED appVars

getRemainingAttempts(email) ==
    /\ last' = Call("getRemainingAttempts", email, <<>>, "", <<>>,
                    getRemainingAttemptsValue(store, email), Found(email))
    /\ UNCHANGED <<now, clockSteps, store, issued>>
    /\ UNCHANGED appVars
    /\ UNCHANGED timerVars
    /\ UNCHANGED appVars

clearOtp(email) ==
    /\ store' = clearOtpStore(store, email)
    /\ last' = Call("clearOtp", email, <<>>, "", <<>>, 0, Found(email))
    /\ UNCHANGED <<now, clockSteps, issued>>
    /\ UNCHANGED timerVars
    /\ UNCHANGED appVars

Next ==
    \/ Advance
    \/ \E email \in Emails : generateOtp(email)
    \/ \E email \in Emails, code \in Candidates : validateOtp(email, code)
    \/ \E email \in Emails : getRemainingSeconds(email)
    \/ \E email \in Emails : getRemainingAttempts(email)
    \/ \E email \in Emails : clearOtp(email)

Spec == Init /\ [][Next]_vars

TypeOK ==
    /\ now \in Nat
    /\ clockSteps \in 0..MaxClockSteps
    /\ DOMAIN store \subseteq Emails
    /\ \A e \in DOMAIN store :
          /\ store[e].code \in Codes
          /\ store[e].createdAt \in 0..now
          /\ store[e].attempts \in Nat
    /\ issued \subseteq Emails

\* ---------------------------------------------------------- useSessionTimer

\* formatElapsed(ms) for ms >= 0
formatElapsed(ms) ==
    LET totalSeconds == ms \div 1000
        minutes == totalSeconds \div 60
        seconds == totalSeconds % 60
    IN  PadStart(NumberToString(minutes), 2, "0") \o <<":">>
            \o PadStart(NumberToString(seconds), 2, "0")

\* the whole seconds a display "m..m:ss" stands for
DisplaySeconds(el) ==
    DigitsValue(SubSeq(el, 1, Len(el) - 3)) * 60
        + DigitsValue(SubSeq(el, Len(el) - 1, Len(el)))

\* a tick that adds one second to what is displayed
tickElapsed_increment(el, ref, t) ==
    IF ref = <<>> THEN el ELSE formatElapsed((DisplaySeconds(el) + 1) * 1000)

\* a tick without the null guard: Date.now() - null is Date.now()
tickElapsed_noGuard(el, ref, t) ==
    IF ref = <<>> THEN formatElapsed(t) ELSE formatElapsed(t - ref[1])

\* the elapsed state after tick() at time t with sessionStartRef = ref
tickElapsed(el, ref, t) ==
    IF ref = <<>> THEN el ELSE formatElapsed(t - ref[1])

SetOp(value) == [kind |-> "set", value |-> value]

RemoveOp == [kind |-> "remove", value |-> <<>>]

\* what a timer call met: whether an interval handle was held
Before == [running |-> intervalRef]

\* a timer call: its name, a string argument, an optional number and what
\* it met
TCall(op, str, arg) ==
    [op |-> op, email |-> str, code |-> <<>>, reason |-> "",
     ret |-> arg, num |-> 0, found |-> <<Before>>, at |-> now]

InitTimer ==
    /\ now = TimerEpoch
    /\ clockSteps = 0
    /\ store = EmptyMap
    /\ last = NoCall
    /\ issued = {}
    /\ TimerInit
    /\ AppInit

TimerAdvance ==
    /\ clockSteps < MaxClockSteps
    /\ \E d \in TimerDeltas : now' = now + d
    /\ clockSteps' = clockSteps + 1
    /\ last' = NoCall
    /\ UNCHANGED otpVars
    /\ UNCHANGED timerVars
    /\ UNCHANGED appVars

\* startTimer that starts again although an interval is held
StartTimerDo_noGuard(arg) ==
    LET start == IF arg # <<>> THEN arg[1] ELSE now
    IN  /\ sessionStartRef' = <<start>>
        /\ pendingOps' = pendingOps \cup {SetOp(NumberToString(start))}
        /\ elapsed' = tickElapsed(elapsed, <<start>>, now)
        /\ intervalRef' = TRUE
        /\ intervals' = intervals + 1

\* the body of startTimer(persistedStart); arg is <<>> when it is omitted
StartTimerDo(arg) ==
    IF intervalRef
    THEN UNCHANGED <<sessionStartRef, pendingOps, elapsed, intervalRef, intervals>>
    ELSE LET start == IF arg # <<>> THEN arg[1] ELSE now
         IN  /\ sessionStartRef' = <<start>>
             /\ pendingOps' = pendingOps \cup {SetOp(NumberToString(start))}
             /\ elapsed' = tickElapsed(elapsed, <<start>>, now)
             /\ intervalRef' = TRUE
             /\ intervals' = intervals + 1

\* stopTimer that counts a task as cleared whether or not a handle is held
StopTimerDo_blindClear ==
    /\ intervals' = intervals - 1
    /\ intervalRef' = FALSE
    /\ sessionStartRef' = <<>>
    /\ elapsed' = ZeroElapsed
    /\ pendingOps' = pendingOps \cup {RemoveOp}

\* stopTimer that leaves the anchor in place
StopTimerDo_keepAnchor ==
    /\ intervals' = IF intervalRef THEN intervals - 1 ELSE intervals
    /\ intervalRef' = FALSE
    /\ sessionStartRef' = sessionStartRef
    /\ elapsed' = ZeroElapsed
    /\ pendingOps' = pendingOps \cup {RemoveOp}

\* the body of stopTimer()
StopTimerDo ==
    /\ intervals' = IF intervalRef THEN intervals - 1 ELSE intervals
    /\ intervalRef' = FALSE
    /\ sessionStartRef' = <<>>
    /\ elapsed' = ZeroElapsed
    /\ pendingOps' = pendingOps \cup {RemoveOp}

\* the arguments startTimer is called with: none, or an earlier instant
StartArgs == {<<>>, <<TimerEpoch - 30000>>}

startTimer(arg) ==
    /\ mounted
    /\ intervalRef \/ Cardinality(pendingOps) < MaxPending
    /\ StartTimerDo(arg)
    /\ last' = TCall("startTimer", "", arg)
    /\ UNCHANGED <<mounted, queued, initPc, storage, restarts>>
    /\ UNCHANGED <<now, clockSteps, store, issued, orphaned>>
    /\ UNCHANGED appVars

stopTimer ==
    /\ mounted
    /\ Cardinality(pendingOps) < MaxPending
    /\ StopTimerDo
    /\ last' = TCall("stopTimer", "", <<>>)
    /\ UNCHANGED <<mounted, queued, initPc, storage, restarts>>
    /\ UNCHANGED <<now, clockSteps, store, issued, orphaned>>
    /\ UNCHANGED appVars

\* the interval becomes due and its callback is dispatched
IntervalDispatch ==
    /\ intervalRef
    /\ ~queued
    /\ queued' = TRUE
    /\ last' = TCall("dispatch", "", <<>>)
    /\ UNCHANGED <<mounted, elapsed, sessionStartRef, intervalRef, intervals,
                   initPc, storage, pendingOps, restarts>>
    /\ UNCHANGED <<now, clockSteps, store, issued, orphaned>>
    /\ UNCHANGED appVars

\* a dispatched callback runs tick()
RunTick ==
    /\ queued
    /\ queued' = FALSE
    /\ elapsed' = tickElapsed(elapsed, sessionStartRef, now)
    /\ last' = TCall("tick", "", <<>>)
    /\ UNCHANGED <<mounted, sessionStartRef, intervalRef, intervals, initPc,
                   storage, pendingOps, restarts>>
    /\ UNCHANGED <<now, clockSteps, store, issued, orphaned>>
    /\ UNCHANGED appVars

AppStates == {"active", "background", "inactive"}

\* a listener that waits for the next periodic tick
handleAppStateChange_stale(nextState) ==
    /\ mounted
    /\ elapsed' = elapsed
    /\ last' = TCall("handleAppStateChange", nextState, <<>>)
    /\ UNCHANGED <<mounted, sessionStartRef, intervalRef, intervals, queued,
                   initPc, storage, pendingOps, restarts>>
    /\ UNCHANGED <<now, clockSteps, store, issued, orphaned>>
    /\ UNCHANGED appVars

handleAppStateChange(nextState) ==
    /\ mounted
    /\ elapsed' = IF nextState = "active" /\ sessionStartRef # <<>>
                  THEN tickElapsed(elapsed, sessionStartRef, now)
                  ELSE elapsed
    /\ last' = TCall("handleAppStateChange", nextState, <<>>)
    /\ UNCHANGED <<mounted, sessionStartRef, intervalRef, intervals, queued,
                   initPc, storage, pendingOps, restarts>>
    /\ UNCHANGED <<now, clockSteps, store, issued, orphaned>>
    /\ UNCHANGED appVars

\* an unmount that drops the handle without clearing its interval
Unmount_keepTask ==
    /\ mounted
    /\ mounted' = FALSE
    /\ intervals' = intervals
    /\ intervalRef' = FALSE
    /\ last' = TCall("unmount", "", <<>>)
    /\ UNCHANGED <<elapsed, sessionStartRef, queued, initPc, storage,
                   pendingOps, restarts>>
    /\ UNCHANGED <<now, clockSteps, store, issued, orphaned>>
    /\ UNCHANGED appVars

\* unmount: the cleanup effect clears the interval the instance holds
Unmount ==
    /\ mounted
    /\ mounted' = FALSE
    /\ intervals' = IF intervalRef THEN intervals - 1 ELSE intervals
    /\ intervalRef' = FALSE
    /\ last' = TCall("unmount", "", <<>>)
    /\ UNCHANGED <<elapsed, sessionStartRef, queued, initPc, storage,
                   pendingOps, restarts>>
    /\ UNCHANGED <<now, clockSteps, store, issued, orphaned>>
    /\ UNCHANGED appVars

\* ------------------------------------------- AsyncStorage, analytics, screen

\* a settle step that takes the anchor back when setItem fails
CompleteOp_rollback(op, ok) ==
    /\ op \in pendingOps
    /\ storage' = IF ~ok THEN storage
                  ELSE IF op.kind = "set" THEN <<op.value>> ELSE <<>>
    /\ pendingOps' = pendingOps \ {op}
    /\ sessionStartRef' = IF ~ok /\ op.kind = "set" THEN <<>>
                          ELSE sessionStartRef
    /\ last' = TCall("storage", op.kind, <<>>)
    /\ UNCHANGED <<mounted, elapsed, intervalRef, intervals, queued, initPc,
                   restarts>>
    /\ UNCHANGED <<now, clockSteps, store, issued, orphaned>>
    /\ UNCHANGED appVars

\* a requested setItem / removeItem settles: it takes effect or it fails
\* (saveSessionStart and clearSession only warn on failure)
CompleteOp(op, ok) ==
    /\ op \in pendingOps
    /\ storage' = IF ~ok THEN storage
                  ELSE IF op.kind = "set" THEN <<op.value>> ELSE <<>>
    /\ pendingOps' = pendingOps \ {op}
    /\ last' = TCall("storage", op.kind, <<>>)
    /\ UNCHANGED <<mounted, elapsed, sessionStartRef, intervalRef, intervals,
                   queued, initPc, restarts>>
    /\ UNCHANGED <<now, clockSteps, store, issued, orphaned>>
    /\ UNCHANGED appVars

\* getSessionStart(): <<>> for null, <<n>> for a number; ok = FALSE when
\* getItem rejects
getSessionStartValue(st, ok) ==
    IF ok /\ st # <<>> /\ st[1] # <<>> THEN <<ParseInt(st[1])>> ELSE <<>>

\* initSession that always starts a fresh session
RecoveredAnchor_fresh(persisted, t) == t

\* initSession: the anchor handed to startTimer, `persisted` being truthy
\* when it is a number other than 0 and NaN
RecoveredAnchor(persisted, t) ==
    IF persisted # <<>> /\ persisted[1] # 0 /\ persisted[1] # NaN
    THEN persisted[1] ELSE t

\* the SessionScreen mounts: a new useSessionTimer instance, and initSession
\* runs up to its await
Mount ==
    /\ ~mounted
    /\ initPc # "reading"
    /\ intervals < MaxIntervals
    /\ mounted' = TRUE
    /\ elapsed' = ZeroElapsed
    /\ sessionStartRef' = <<>>
    /\ intervalRef' = FALSE
    /\ queued' = FALSE
    /\ initPc' = "reading"
    /\ orphaned' = intervals
    /\ last' = TCall("mount", "", <<>>)
    /\ UNCHANGED <<intervals, storage, pendingOps, restarts>>
    /\ UNCHANGED <<now, clockSteps, store, issued>>
    /\ UNCHANGED appVars

\* initSession resumes after the await and calls startTimer
initSession(ok) ==
    /\ initPc = "reading"
    /\ intervalRef \/ Cardinality(pendingOps) < MaxPending
    /\ LET persisted == getSessionStartValue(storage, ok)
       IN  /\ StartTimerDo(<<RecoveredAnchor(persisted, now)>>)
           /\ last' = TCall("initSession", "", persisted)
    /\ initPc' = "done"
    /\ UNCHANGED <<mounted, queued, storage, restarts>>
    /\ UNCHANGED <<now, clockSteps, store, issued, orphaned>>
    /\ UNCHANGED appVars

\* the process is killed and launched again: memory is lost, AsyncStorage
\* stays, operations still in flight are lost
Kill ==
    /\ restarts < MaxRestarts
    /\ restarts' = restarts + 1
    /\ mounted' = FALSE
    /\ elapsed' = ZeroElapsed
    /\ sessionStartRef' = <<>>
    /\ intervalRef' = FALSE
    /\ intervals' = 0
    /\ orphaned' = 0
    /\ queued' = FALSE
    /\ initPc' = "none"
    /\ pendingOps' = {}
    /\ store' = EmptyMap
    /\ issued' = {}
    /\ otpScreen' = <<>>
    /\ countdown' = InitialCountdown
    /\ countdownRef' = FALSE
    /\ polls' = 0
    /\ initialized' = FALSE
    /\ logs' = <<>>
    /\ logTasks' = {AppInitTask}
    /\ verified' = <<>>
    /\ last' = TCall("kill", "", <<>>)
    /\ UNCHANGED <<storage, persistedLog, calls, now, clockSteps>>

NextTimer ==
    \/ TimerAdvance
    \/ Mount
    \/ \E ok \in BOOLEAN : initSession(ok)
    \/ \E arg \in StartArgs : startTimer(arg)
    \/ stopTimer
    \/ IntervalDispatch
    \/ RunTick
    \/ \E nextState \in AppStates : handleAppStateChange(nextState)
    \/ \E op \in pendingOps, ok \in BOOLEAN : CompleteOp(op, ok)
    \/ Unmount
    \/ Kill

SpecTimer == InitTimer /\ [][NextTimer]_vars

TimerTypeOK ==
    /\ mounted \in BOOLEAN
    /\ intervalRef \in BOOLEAN
    /\ queued \in BOOLEAN
    /\ intervals \in 0..(MaxIntervals + 1)
    /\ initPc \in {"none", "reading", "done"}
    /\ Cardinality(pendingOps) <= MaxPending
    /\ restarts \in 0..MaxRestarts
    /\ orphaned \in 0..intervals
    /\ Len(sessionStartRef) <= 1
    /\ Len(storage) <= 1

\* ------------------------------------------ formatElapsed on a running timer

\* whole seconds and odd milliseconds a running timer has been going for
FormatSeconds ==
    {0, 1, 9, 10, 59, 60, 61, 119, 599, 600, 3599, 3600, 5999, 6000, 6001,
     59999, 60000}

FormatMillis == {0, 1, 500, 999}

\* a timer started at TimerEpoch whose save has settled, seen some time
\* later
InitFormat ==
    /\ \E sec \in FormatSeconds, ms \in FormatMillis :
          now = TimerEpoch + sec * 1000 + ms
    /\ clockSteps = 0
    /\ store = EmptyMap
    /\ last = NoCall
    /\ issued = {}
    /\ mounted = TRUE
    /\ elapsed = ZeroElapsed
    /\ sessionStartRef = <<TimerEpoch>>
    /\ intervalRef = TRUE
    /\ intervals = 1
    /\ queued = FALSE
    /\ initPc = "done"
    /\ storage = <<NumberToString(TimerEpoch)>>
    /\ pendingOps = {}
    /\ restarts = 0
    /\ orphaned = 0
    /\ AppInit

NextFormat ==
    \/ IntervalDispatch
    \/ RunTick
    \/ \E nextState \in AppStates : handleAppStateChange(nextState)

SpecFormat == InitFormat /\ [][NextFormat]_vars

\* ------------------------------------------- analytics log and OTP screens

\* logEvent calls made in one run
MaxEvents == 2

\* the amounts by which the clock moves while a code is on file
CountdownDeltas == {30000, 30001}

\* the identity that signs in, the value Math.random() leads to and the
\* inputs typed into the OTP field
ScreenEmails == {"a@x.com"}

ScreenRawValues == {42}

Inputs == {createRandomCode(42), NumberToString(42), <<" ">>}

\* JSON.stringify(this.logs) and JSON.parse(raw): the text of an array of
\* payloads and the array read back from it
Stringify(payloads) == [json |-> payloads]

Parse(raw) == raw.json

\* the object logEvent pushes; n numbers the logEvent calls and stands for
\* the identity of the payload, meta is <<>> when omitted
Payload(event, email, meta, n) ==
    [event |-> event, email |-> email, meta |-> meta, n |-> n]

\* a payload a previous run persisted
OldPayload == Payload("logout", "a@x.com", <<>>, 0)

\* an analytics or screen step: Call with the time of the step
ACall(op, email, code, reason, ret, num, found) ==
    Call(op, email, code, reason, ret, num, found)

\* logEvent that pushes before init() has returned
LogEventDo_eager(event, email, meta) ==
    LET payload == Payload(event, email, meta, calls + 1)
    IN  /\ calls' = calls + 1
        /\ logs' = Append(logs, payload)
        /\ logTasks' = logTasks \cup
              (IF initialized
               THEN {WriteTask(calls + 1, Stringify(Append(logs, payload)))}
               ELSE {ReadTask(calls + 1, <<payload>>)})
        /\ UNCHANGED <<initialized, persistedLog>>

\* logEvent(event, email, meta) up to its first suspension: with the
\* service initialized it pushes and requests the write at once, otherwise
\* it waits in init() for its own getItem
LogEventDo(event, email, meta) ==
    LET payload == Payload(event, email, meta, calls + 1)
    IN  /\ calls' = calls + 1
        /\ IF initialized
           THEN /\ logs' = Append(logs, payload)
                /\ logTasks' = logTasks \cup
                      {WriteTask(calls + 1, Stringify(Append(logs, payload)))}
           ELSE /\ logs' = logs
                /\ logTasks' = logTasks \cup {ReadTask(calls + 1, <<payload>>)}
        /\ UNCHANGED <<initialized, persistedLog>>

\* init() after its getItem settled: what this.logs becomes
LoadedLogs(ok) ==
    IF ~ok THEN <<>>
    ELSE IF persistedLog # <<>> THEN Parse(persistedLog[1])
    ELSE logs

\* the getItem of an init() call settles; a logEvent waiting on it pushes
\* its payload and requests the write
InitSettle(task, ok) ==
    /\ task \in logTasks
    /\ task.pc = "read"
    /\ LET loaded == LoadedLogs(ok)
           after == IF task.ev = <<>> THEN loaded
                    ELSE Append(loaded, task.ev[1])
       IN  /\ logs' = after
           /\ logTasks' = (logTasks \ {task}) \cup
                 (IF task.ev = <<>> THEN {}
                  ELSE {WriteTask(task.n, Stringify(after))})
    /\ initialized' = TRUE
    /\ last' = ACall("initSettle", "", <<>>, IF ok THEN "" ELSE "rejected",
                     task.ev, task.n, <<>>)
    /\ UNCHANGED <<persistedLog, calls, otpScreen, countdown, countdownRef,
                   polls>>
    /\ UNCHANGED <<now, clockSteps, store, issued>>
    /\ UNCHANGED verified
    /\ UNCHANGED timerVars

\* the setItem of a logEvent call settles
WriteSettle(task, ok) ==
    /\ task \in logTasks
    /\ task.pc = "write"
    /\ persistedLog' = IF ok THEN task.data ELSE persistedLog
    /\ logTasks' = logTasks \ {task}
    /\ last' = ACall("writeSettle", "", <<>>, IF ok THEN "" ELSE "rejected",
                     <<>>, task.n, <<>>)
    /\ UNCHANGED <<initialized, logs, calls, otpScreen, countdown,
                   countdownRef, polls>>
    /\ UNCHANGED <<now, clockSteps, store, issued>>
    /\ UNCHANGED verified
    /\ UNCHANGED timerVars

\* time passes while some code on file has not outlived its window
Elapse ==
    /\ \E e \in DOMAIN store : now - store[e].createdAt <= OTP_EXPIRY_MS
    /\ \E d \in CountdownDeltas : now' = now + d
    /\ last' = NoCall
    /\ UNCHANGED <<clockSteps, store, issued>>
    /\ UNCHANGED timerVars
    /\ UNCHANGED appVars

\* the window of every code on file runs out
Expire ==
    /\ \E e \in DOMAIN store : now - store[e].createdAt <= OTP_EXPIRY_MS
    /\ now' = now + OTP_EXPIRY_MS + 1
    /\ last' = NoCall
    /\ UNCHANGED <<clockSteps, store, issued>>
    /\ UNCHANGED timerVars
    /\ UNCHANGED appVars

\* startCountdown(): any interval held is cleared, the countdown is set
\* from the manager and a new interval is created
StartCountdownDo(st, email) ==
    /\ polls' = IF countdownRef THEN polls ELSE polls + 1
    /\ countdownRef' = TRUE
    /\ countdown' = getRemainingSecondsValue(st, now, email)

\* LoginScreen.handleSendOtp up to `await logEvent`
handleSendOtp(email, raw) ==
    /\ otpScreen = <<>>
    /\ calls < MaxEvents
    /\ LET code == createRandomCode(raw)
       IN  /\ store' = generateOtpStore(store, email, code, now)
           /\ last' = ACall("handleSendOtp", email, <<>>, "", code,
                            calls + 1, Found(email))
    /\ issued' = issued \cup {email}
    /\ LogEventDo("otp_generated", email, <<>>)
    /\ UNCHANGED <<otpScreen, countdown, countdownRef, polls>>
    /\ UNCHANGED <<now, clockSteps>>
    /\ UNCHANGED verified
    /\ UNCHANGED timerVars

\* navigation to the OTP screen: useOtp(email) mounts and starts its
\* countdown
OtpMount(email) ==
    /\ otpScreen = <<>>
    /\ email \in issued
    /\ otpScreen' = <<email>>
    /\ StartCountdownDo(store, email)
    /\ last' = ACall("otpMount", email, <<>>, "", <<>>, 0, Found(email))
    /\ UNCHANGED <<initialized, logs, persistedLog, logTasks, calls>>
    /\ UNCHANGED <<now, clockSteps, store, issued>>
    /\ verified' = <<>>
    /\ UNCHANGED timerVars

\* the OTP screen unmounts: the cleanup clears the interval it holds
OtpUnmount ==
    /\ otpScreen # <<>>
    /\ otpScreen' = <<>>
    /\ polls' = IF countdownRef THEN polls - 1 ELSE polls
    /\ countdownRef' = FALSE
    /\ last' = ACall("otpUnmount", otpScreen[1], <<>>, "", <<>>, 0, <<>>)
    /\ UNCHANGED <<countdown, initialized, logs, persistedLog, logTasks,
                   calls>>
    /\ UNCHANGED <<now, clockSteps, store, issued>>
    /\ UNCHANGED verified
    /\ UNCHANGED timerVars

\* a poll that never clears its interval
Poll_forever ==
    /\ otpScreen # <<>>
    /\ countdownRef
    /\ LET email == otpScreen[1]
           remaining == getRemainingSecondsValue(store, now, email)
       IN  /\ countdown' = remaining
           /\ UNCHANGED <<countdownRef, polls>>
           /\ last' = ACall("poll", email, <<>>, "", <<>>, remaining,
                            Found(email))
    /\ UNCHANGED <<otpScreen, initialized, logs, persistedLog, logTasks,
                   calls>>
    /\ UNCHANGED <<now, clockSteps, store, issued>>
    /\ UNCHANGED verified
    /\ UNCHANGED timerVars

\* the polling interval fires
Poll ==
    /\ otpScreen # <<>>
    /\ countdownRef
    /\ LET email == otpScreen[1]
           remaining == getRemainingSecondsValue(store, now, email)
       IN  /\ countdown' = remaining
           /\ countdownRef' = (remaining > 0)
           /\ polls' = IF remaining <= 0 THEN polls - 1 ELSE polls
           /\ last' = ACall("poll", email, <<>>, "", <<>>, remaining,
                            Found(email))
    /\ UNCHANGED <<otpScreen, initialized, logs, persistedLog, logTasks,
                   calls>>
    /\ UNCHANGED <<now, clockSteps, store, issued>>
    /\ UNCHANGED verified
    /\ UNCHANGED timerVars

\* the event handleVerify logs for an outcome
VerifyEvent_alwaysIncorrect(reason) ==
    IF reason = "success" THEN <<"otp_validation_success", <<>>>>
    ELSE <<"otp_validation_failure", <<"reason", "incorrect">>>>

VerifyEvent(reason) ==
    IF reason = "success" THEN <<"otp_validation_success", <<>>>>
    ELSE <<"otp_validation_failure", <<"reason", reason>>>>

\* useOtp.handleVerify up to `await logEvent`; a blank input only sets the
\* message
handleVerify(input) ==
    /\ otpScreen # <<>>
    /\ LET email == otpScreen[1]
           result == validateOtpResult(store, now, email, input)
       IN  IF Trim(input) = <<>>
           THEN /\ last' = ACall("handleVerify", email, input, "", <<>>, 0,
                                 Found(email))
                /\ UNCHANGED <<store, issued, initialized, logs,
                               persistedLog, logTasks, calls, verified>>
           ELSE /\ calls < MaxEvents
                /\ store' = result.store
                /\ issued' = IF result.reason = "success"
                             THEN issued \ {email} ELSE issued
                /\ verified' = IF result.reason = "success"
                               THEN <<now>> ELSE verified
                /\ LogEventDo(VerifyEvent(result.reason)[1], email,
                              VerifyEvent(result.reason)[2])
                /\ last' = ACall("handleVerify", email, input,
                                 result.reason, <<>>, calls + 1, Found(email))
    /\ UNCHANGED <<otpScreen, countdown, countdownRef, polls>>
    /\ UNCHANGED <<now, clockSteps>>
    /\ UNCHANGED timerVars

\* useOtp.handleResend up to `await logEvent`
handleResend(raw) ==
    /\ otpScreen # <<>>
    /\ calls < MaxEvents
    /\ LET email == otpScreen[1]
           code == createRandomCode(raw)
           st == generateOtpStore(store, email, code, now)
       IN  /\ store' = st
           /\ StartCountdownDo(st, email)
           /\ last' = ACall("handleResend", email, <<>>, "", code,
                            calls + 1, Found(email))
           /\ issued' = issued \cup {email}
           /\ LogEventDo("otp_generated", email, <<"resend", TRUE>>)
    /\ UNCHANGED otpScreen
    /\ UNCHANGED <<now, clockSteps>>
    /\ UNCHANGED verified
    /\ UNCHANGED timerVars

\* a launch, with or without a log left by an earlier run
InitLog ==
    /\ now = 0
    /\ clockSteps = 0
    /\ store = EmptyMap
    /\ last = NoCall
    /\ issued = {}
    /\ TimerInit
    /\ otpScreen = <<>>
    /\ countdown = InitialCountdown
    /\ countdownRef = FALSE
    /\ polls = 0
    /\ initialized = FALSE
    /\ logs = <<>>
    /\ persistedLog \in {<<>>, <<Stringify(<<OldPayload>>)>>}
    /\ logTasks = {AppInitTask}
    /\ calls = 0
    /\ verified = <<>>

NextLog ==
    \/ Expire
    \/ \E email \in ScreenEmails, raw \in ScreenRawValues :
          handleSendOtp(email, raw)
    \/ \E email \in ScreenEmails : OtpMount(email)
    \/ OtpUnmount
    \/ \E input \in Inputs : handleVerify(input)
    \/ \E raw \in ScreenRawValues : handleResend(raw)
    \/ \E task \in logTasks : InitSettle(task, TRUE)
    \/ \E task \in logTasks : WriteSettle(task, TRUE)

SpecLog == InitLog /\ [][NextLog]_vars

NextCountdown ==
    \/ Elapse
    \/ \E email \in ScreenEmails, raw \in ScreenRawValues :
          handleSendOtp(email, raw)
    \/ \E email \in ScreenEmails : OtpMount(email)
    \/ OtpUnmount
    \/ Poll
    \/ \E input \in Inputs : handleVerify(input)
    \/ \E raw \in ScreenRawValues : handleResend(raw)

SpecCountdown == Init /\ [][NextCountdown]_vars

\* the clock and the interval keep going
SpecCountdownLive ==
    SpecCountdown /\ WF_vars(Elapse) /\ WF_vars(Poll)

\* storage calls that may fail. The session screen and the login and OTP
\* screens share neither memory nor a storage key, so a run follows the
\* one or the other: the session screen is mounted while nothing has been
\* logged, an OTP is sent while no session screen has been mounted.
NextPersist ==
    \/ calls = 0 /\ Mount
    \/ \E ok \in BOOLEAN : initSession(ok)
    \/ \E arg \in StartArgs : startTimer(arg)
    \/ stopTimer
    \/ \E op \in pendingOps, ok \in BOOLEAN : CompleteOp(op, ok)
    \/ Unmount
    \/ Expire
    \/ \E email \in ScreenEmails, raw \in ScreenRawValues :
          initPc = "none" /\ handleSendOtp(email, raw)
    \/ \E email \in ScreenEmails : OtpMount(email)
    \/ \E input \in Inputs : handleVerify(input)
    \/ \E task \in logTasks, ok \in BOOLEAN : InitSettle(task, ok)
    \/ \E task \in logTasks, ok \in BOOLEAN : WriteSettle(task, ok)

SpecPersist == InitTimer /\ [][NextPersist]_vars

\* one session screen whose storage calls all succeed and settle in any
\* order
NextMirror ==
    \/ TimerAdvance
    \/ Mount
    \/ initSession(TRUE)
    \/ \E arg \in StartArgs : startTimer(arg)
    \/ stopTimer
    \/ \E op \in pendingOps : CompleteOp(op, TRUE)

SpecMirror == InitTimer /\ [][NextMirror]_vars

\* a freshly launched process on the login screen; AsyncStorage holds
\* nothing, or the anchor of a session during which the process before it
\* was killed
InitSession ==
    /\ now = TimerEpoch
    /\ clockSteps = 0
    /\ store = EmptyMap
    /\ last = NoCall
    /\ issued = {}
    /\ mounted = FALSE
    /\ elapsed = ZeroElapsed
    /\ sessionStartRef = <<>>
    /\ intervalRef = FALSE
    /\ intervals = 0
    /\ queued = FALSE
    /\ initPc = "none"
    /\ storage \in {<<>>, <<NumberToString(TimerEpoch - 30000)>>}
    /\ pendingOps = {}
    /\ restarts = 0
    /\ orphaned = 0
    /\ AppInit

\* login, OTP screen and session screen in the order of the navigator:
\* OtpScreen replaces itself by SessionScreen once verified is true
NextSession ==
    \/ TimerAdvance
    \/ \E email \in ScreenEmails, raw \in ScreenRawValues :
          handleSendOtp(email, raw)
    \/ \E email \in ScreenEmails : OtpMount(email)
    \/ \E input \in Inputs : handleVerify(input)
    \/ otpScreen # <<>> /\ verified # <<>> /\ Mount
    \/ mounted /\ OtpUnmount
    \/ initSession(TRUE)
    \/ \E op \in pendingOps : CompleteOp(op, TRUE)

SpecSession == InitSession /\ [][NextSession]_vars

AppTypeOK ==
    /\ Len(otpScreen) <= 1
    /\ countdown \in 0..InitialCountdown
    /\ countdownRef \in BOOLEAN
    /\ polls \in 0..1
    /\ initialized \in BOOLEAN
    /\ calls \in 0..MaxEvents
    /\ Len(logs) <= MaxEvents + 1
    /\ Len(persistedLog) <= 1
    /\ Len(verified) <= 1
    /\ \A task \in logTasks : task.pc \in {"read", "write"}

\* ------------------------------------------------------------------- claims

\* what the last call was and what it met
IsValidate == last.op = "validateOtp"

HadRecord == last.found # <<>>

FoundRecord == last.found[1]

FoundAge == last.at - FoundRecord.createdAt

\* C1: validateOtp applies no-record, expired, attempts-exhausted and code
\* comparison in that order and returns the first that applies: an expired
\* record yields expired and is deleted whatever its attempts, a locked
\* unexpired record yields max_attempts for every candidate, and only an
\* unexpired unlocked record reaches the comparison.
C1_CheckOrder ==
    IsValidate =>
        /\ ~HadRecord => last.reason = "no_otp"
        /\ HadRecord /\ FoundAge > OTP_EXPIRY_MS =>
              /\ last.reason = "expired"
              /\ last.email \notin DOMAIN store
        /\ HadRecord /\ FoundAge <= OTP_EXPIRY_MS
                     /\ FoundRecord.attempts >= MAX_ATTEMPTS =>
              last.reason = "max_attempts"
        /\ HadRecord /\ FoundAge <= OTP_EXPIRY_MS
                     /\ FoundRecord.attempts < MAX_ATTEMPTS =>
              /\ last.reason \in {"success", "incorrect", "max_attempts"}
              /\ last.reason = "success" <=> FoundRecord.code = Trim(last.code)

\* a validate met a record that was both expired and locked
C1_Witness ==
    /\ IsValidate
    /\ HadRecord
    /\ FoundAge > OTP_EXPIRY_MS
    /\ FoundRecord.attempts = MAX_ATTEMPTS
    /\ last.reason = "expired"

C2_State ==
    IsValidate /\ HadRecord /\ FoundAge <= OTP_EXPIRY_MS
               /\ FoundRecord.attempts < MAX_ATTEMPTS
               /\ last.code = FoundRecord.code =>
        /\ last.reason = "success"
        /\ last.email \notin DOMAIN store
        /\ validateOtpResult(store, now, last.email, last.code).reason = "no_otp"

\* C2: single use. A validate with the exact code on an unexpired record
\* with attempts < 3 returns success and deletes the record, so the same
\* validate repeated at once returns no_otp; and every success for an
\* identity is preceded by a generateOtp for it that no earlier success used.
C2_SingleUse ==
    [][ /\ C2_State'
        /\ (last'.op = "validateOtp" /\ last'.reason = "success")
               => last'.email \in issued ]_vars

\* the exact code was accepted on a record that had already failed once
C2_Witness ==
    /\ IsValidate
    /\ HadRecord
    /\ last.code = FoundRecord.code
    /\ FoundRecord.attempts = 1
    /\ last.reason = "success"

\* C3: on an unexpired record with attempts = k < 3 a candidate that does not
\* match after trimming adds exactly 1 to attempts, changes nothing else, and
\* returns max_attempts when k + 1 = 3 and incorrect otherwise.
C3_WrongCode ==
    IsValidate /\ HadRecord /\ FoundAge <= OTP_EXPIRY_MS
               /\ FoundRecord.attempts < MAX_ATTEMPTS
               /\ FoundRecord.code # Trim(last.code) =>
        /\ last.email \in DOMAIN store
        /\ store[last.email] =
              [FoundRecord EXCEPT !.attempts = FoundRecord.attempts + 1]
        /\ last.reason = IF FoundRecord.attempts + 1 = MAX_ATTEMPTS
                         THEN "max_attempts" ELSE "incorrect"

\* the third wrong code in a row
C3_Witness ==
    /\ IsValidate
    /\ HadRecord
    /\ FoundRecord.attempts = MAX_ATTEMPTS - 1
    /\ FoundRecord.code # Trim(last.code)
    /\ last.reason = "max_attempts"
    /\ store[last.email].attempts = MAX_ATTEMPTS

C4_State ==
    /\ IsValidate /\ HadRecord /\ FoundAge <= OTP_EXPIRY_MS
                  /\ FoundRecord.attempts >= MAX_ATTEMPTS =>
          /\ last.reason = "max_attempts"
          /\ last.email \in DOMAIN store
          /\ store[last.email] = FoundRecord
    /\ IsValidate /\ last.reason = "success" =>
          FoundRecord.attempts < MAX_ATTEMPTS

\* C4: lockout. Once attempts have reached 3 every validate inside the
\* expiry window returns max_attempts and leaves the record as it was, for
\* any candidate; a success never comes from a locked record, and a record's
\* attempts only go down when generateOtp replaces it.
C4_Lockout ==
    [][ /\ C4_State'
        /\ \A e \in DOMAIN store :
              (e \in DOMAIN store' /\ store'[e].attempts < store[e].attempts)
                  => (last'.op = "generateOtp" /\ last'.email = e) ]_vars

\* the correct code was refused on a locked, unexpired record
C4_Witness ==
    /\ IsValidate
    /\ HadRecord
    /\ FoundAge <= OTP_EXPIRY_MS
    /\ FoundRecord.attempts = MAX_ATTEMPTS
    /\ last.code = FoundRecord.code
    /\ last.reason = "max_attempts"

\* C5 as stated: a record created 60,000 ms or more ago (now - createdAt >=
\* 60000) makes validateOtp return expired and removes the record.
C5_ExpiredFromSixtySeconds ==
    IsValidate /\ HadRecord /\ FoundAge >= OTP_EXPIRY_MS =>
        /\ last.reason = "expired"
        /\ last.email \notin DOMAIN store

\* C5 amended: a record created more than 60,000 ms ago (now - createdAt >
\* 60000) makes validateOtp return expired for any candidate, the correct
\* code included, and removes the record, so the next validate on that
\* identity returns no_otp.
C5_ExpiredAfterSixtySeconds ==
    IsValidate /\ HadRecord /\ FoundAge > OTP_EXPIRY_MS =>
        /\ last.reason = "expired"
        /\ last.email \notin DOMAIN store
        /\ \A code \in Candidates :
              validateOtpResult(store, now, last.email, code).reason = "no_otp"

\* the correct code arrived on a record older than the window
C5_Witness ==
    /\ IsValidate
    /\ HadRecord
    /\ FoundAge > OTP_EXPIRY_MS
    /\ last.code = FoundRecord.code
    /\ FoundRecord.attempts < MAX_ATTEMPTS
    /\ last.reason = "expired"

\* C6: the expiry test is strict. A validate that meets a record returns
\* expired exactly when now - createdAt > 60000, and at an age of exactly
\* 60,000 ms the correct code on a record with attempts < 3 is a success.
C6_StrictExpiry ==
    IsValidate /\ HadRecord =>
        /\ last.reason = "expired" <=> FoundAge > OTP_EXPIRY_MS
        /\ (FoundAge = OTP_EXPIRY_MS /\ FoundRecord.attempts < MAX_ATTEMPTS
                                     /\ last.code = FoundRecord.code)
               => last.reason = "success"

\* the correct code was accepted at an age of exactly 60,000 ms
C6_Witness ==
    /\ IsValidate
    /\ HadRecord
    /\ FoundAge = OTP_EXPIRY_MS
    /\ last.code = FoundRecord.code
    /\ last.reason = "success"

\* C7: resend invalidates. When generateOtp replaces a record that an earlier
\* generateOtp for the same identity left, a validate with the code of the
\* replaced record does not return success, whatever the two codes are.
C7_ResendInvalidates ==
    last.op = "generateOtp" /\ HadRecord =>
        validateOtpResult(store, now, last.email, FoundRecord.code).reason
            # "success"

\* C8: generateOtp is enabled for every identity in every state and, whatever
\* it found (nothing, a live, a locked or an expired record), leaves for that
\* identity the record (returned code, createdAt = now, attempts = 0); right
\* after it remaining attempts are 3, remaining seconds are 60 and a validate
\* with the returned code is a success.
C8_GenerateFresh ==
    /\ \A e \in Emails : ENABLED generateOtp(e)
    /\ last.op = "generateOtp" =>
          /\ last.email \in DOMAIN store
          /\ store[last.email] =
                [code |-> last.ret, createdAt |-> now, attempts |-> 0]
          /\ getRemainingAttemptsValue(store, last.email) = MAX_ATTEMPTS
          /\ getRemainingSecondsValue(store, now, last.email) = 60
          /\ validateOtpResult(store, now, last.email, last.ret).reason
                = "success"

\* generateOtp replaced a locked record
C8_Witness ==
    /\ last.op = "generateOtp"
    /\ HadRecord
    /\ FoundRecord.attempts = MAX_ATTEMPTS
    /\ store[last.email].attempts = 0

\* C9: a validate for an identity without a record returns no_otp for any
\* candidate and leaves the store as it was.
C9_NoRecord ==
    [][ (last'.op = "validateOtp" /\ last'.found = <<>>) =>
            /\ last'.reason = "no_otp"
            /\ store' = store ]_vars

\* a validate found nothing for an identity whose record had been removed
C9_Witness ==
    /\ IsValidate
    /\ ~HadRecord
    /\ last.email \in issued
    /\ last.reason = "no_otp"

\* C10: getRemainingSeconds returns 0 when there is no record or when
\* 60000 - (now - createdAt) <= 0, and otherwise the least integer n with
\* n * 1000 >= 60000 - (now - createdAt); the value is always in 0..60.
C10_RemainingSeconds ==
    last.op = "getRemainingSeconds" =>
        /\ last.num \in 0..60
        /\ ~HadRecord => last.num = 0
        /\ HadRecord =>
              LET remaining == OTP_EXPIRY_MS - FoundAge
              IN  /\ remaining <= 0 => last.num = 0
                  /\ remaining > 0 =>
                        /\ last.num * 1000 >= remaining
                        /\ (last.num - 1) * 1000 < remaining

\* one millisecond after generateOtp the countdown still shows 60
C10_Witness ==
    /\ last.op = "getRemainingSeconds"
    /\ HadRecord
    /\ FoundAge = 1
    /\ last.num = 60

\* C11: while no generateOtp is made for an identity its remaining seconds
\* never go up from one state to the next, are 0 from the expiry boundary
\* (age 60,000 ms) on, and are never negative.
C11_CountdownMonotonic ==
    [][ \A e \in Emails :
          /\ getRemainingSecondsValue(store', now', e) >= 0
          /\ (e \in DOMAIN store' /\ now' - store'[e].createdAt >= OTP_EXPIRY_MS)
                => getRemainingSecondsValue(store', now', e) = 0
          /\ ~(last'.op = "getRemainingSeconds" /\ last'.email = e)
                \/ last'.num = getRemainingSecondsValue(store', now', e)
          /\ ~(last'.op = "generateOtp" /\ last'.email = e)
                => getRemainingSecondsValue(store', now', e)
                       <= getRemainingSecondsValue(store, now, e) ]_vars

\* the countdown was read as 0 exactly at the expiry boundary
C11_Witness ==
    /\ last.op = "getRemainingSeconds"
    /\ HadRecord
    /\ FoundAge = OTP_EXPIRY_MS
    /\ last.num = 0

\* C12: getRemainingAttempts returns max(0, 3 - attempts) for a record and 0
\* without one, always within 0..3, and a validate that returns incorrect or
\* that crosses into max_attempts lowers it by exactly 1.
C12_RemainingAttempts ==
    [][ /\ last'.op = "getRemainingAttempts" =>
              /\ last'.num \in 0..MAX_ATTEMPTS
              /\ last'.found = <<>> => last'.num = 0
              /\ last'.found # <<>> =>
                    /\ last'.num >= MAX_ATTEMPTS - last'.found[1].attempts
                    /\ last'.num \in {0, MAX_ATTEMPTS - last'.found[1].attempts}
        /\ \A e \in Emails :
              getRemainingAttemptsValue(store', e) \in 0..MAX_ATTEMPTS
        /\ (/\ last'.op = "validateOtp"
            /\ \/ last'.reason = "incorrect"
               \/ /\ last'.reason = "max_attempts"
                  /\ last'.found[1].attempts < MAX_ATTEMPTS)
              => getRemainingAttemptsValue(store', last'.email)
                     = getRemainingAttemptsValue(store, last'.email) - 1 ]_vars

\* a first wrong code left two attempts
C12_Witness ==
    /\ IsValidate
    /\ HadRecord
    /\ FoundRecord.attempts = 0
    /\ last.reason = "incorrect"
    /\ getRemainingAttemptsValue(store, last.email) = 2

\* C13: getRemainingSeconds and getRemainingAttempts have no side effect: a
\* call leaves the store and the clock as they were, in any state, and so the
\* outcome of every validate that could follow.
C13_GettersPure ==
    [][ last'.op \in {"getRemainingSeconds", "getRemainingAttempts"} =>
            /\ store' = store
            /\ now' = now
            /\ \A e \in Emails, c \in Candidates :
                  validateOtpResult(store', now', e, c)
                      = validateOtpResult(store, now, e, c) ]_vars

\* the countdown was polled on an expired record that is still on file
C13_Witness ==
    /\ last.op = "getRemainingSeconds"
    /\ HadRecord
    /\ FoundAge > OTP_EXPIRY_MS
    /\ last.email \in DOMAIN store
    /\ store[last.email] = FoundRecord

\* C14: clearOtp removes the record of its identity whatever its state, does
\* nothing when there is none, leaves every other identity's record as it
\* was, and is followed by no_otp for every validate on that identity.
C14_Clear ==
    [][ last'.op = "clearOtp" =>
            /\ last'.email \notin DOMAIN store'
            /\ last'.email \notin DOMAIN store => store' = store
            /\ \A o \in Emails \ {last'.email} :
                  /\ o \in DOMAIN store' <=> o \in DOMAIN store
                  /\ o \in DOMAIN store => store'[o] = store[o]
            /\ \A c \in Candidates :
                  validateOtpResult(store', now', last'.email, c).reason
                      = "no_otp" ]_vars

\* a locked record was cleared while another identity had a record
C14_Witness ==
    /\ last.op = "clearOtp"
    /\ HadRecord
    /\ FoundRecord.attempts = MAX_ATTEMPTS
    /\ last.email \notin DOMAIN store
    /\ DOMAIN store # {}

\* C15: an empty or blank candidate given to validateOtp on an unexpired
\* record with attempts < 3 is an ordinary mismatch: attempts go up by 1 and
\* the outcome is incorrect, or max_attempts on the third failure.
C15_EmptyCandidate ==
    IsValidate /\ Trim(last.code) = <<>> /\ HadRecord
               /\ FoundAge <= OTP_EXPIRY_MS
               /\ FoundRecord.attempts < MAX_ATTEMPTS =>
        /\ last.email \in DOMAIN store
        /\ store[last.email].attempts = FoundRecord.attempts + 1
        /\ last.reason = IF FoundRecord.attempts + 1 >= MAX_ATTEMPTS
                         THEN "max_attempts" ELSE "incorrect"

\* a blank candidate was the third failure
C15_Witness ==
    /\ IsValidate
    /\ last.code = <<" ">>
    /\ HadRecord
    /\ FoundRecord.attempts = MAX_ATTEMPTS - 1
    /\ last.reason = "max_attempts"

\* whether the last timer call met an interval handle
WasRunning == last.found[1].running

\* C16: every emission of a timer whose anchor is set (the first one in
\* startTimer, each tick, each return to the foreground) leaves the display
\* at formatElapsed(now - anchor), however many ticks were missed; 65 s after
\* the anchor it reads "01:05".
C16_AnchoredDisplay ==
    (\/ last.op \in {"startTimer", "initSession"} /\ ~WasRunning
     \/ last.op = "tick" /\ sessionStartRef # <<>>
     \/ /\ last.op = "handleAppStateChange"
        /\ last.email = "active"
        /\ sessionStartRef # <<>>) =>
        /\ sessionStartRef # <<>>
        /\ elapsed = formatElapsed(now - sessionStartRef[1])
        /\ now - sessionStartRef[1] = 65000
              => elapsed = <<"0", "1", ":", "0", "5">>

\* a single tick 65 s after the start shows 01:05
C16_Witness ==
    /\ last.op = "tick"
    /\ intervalRef
    /\ sessionStartRef # <<>>
    /\ now - sessionStartRef[1] = 65000
    /\ elapsed = <<"0", "1", ":", "0", "5">>

\* C17: startTimer called while an interval is held, with or without an
\* argument, changes nothing: anchor, handle, number of periodic tasks,
\* display, requested writes and persisted value stay as they were.
C17_StartIdempotent ==
    [][ (last'.op \in {"startTimer", "initSession"} /\ intervalRef) =>
            UNCHANGED <<sessionStartRef, intervalRef, intervals, elapsed,
                        pendingOps, storage>> ]_vars

\* startTimer was called with an anchor while running and the anchor stayed
C17_Witness ==
    /\ last.op = "startTimer"
    /\ WasRunning
    /\ last.ret # <<>>
    /\ intervalRef
    /\ sessionStartRef # last.ret
    /\ intervals = 1

\* after stopTimer: no handle, no anchor, display 00:00
Stopped ==
    /\ ~intervalRef
    /\ sessionStartRef = <<>>
    /\ elapsed = ZeroElapsed

\* C18: stopTimer on a running timer cancels its periodic task, clears the
\* anchor, sets the display to 00:00 and requests the removal of the
\* persisted anchor; an initSession that then finds no persisted value
\* starts a session anchored at the current time and showing 00:00.
C18_StopThenFresh ==
    [][ /\ (last'.op = "stopTimer" /\ intervalRef) =>
              /\ Stopped'
              /\ intervals' = intervals - 1
              /\ pendingOps' = pendingOps \cup {RemoveOp}
        /\ (last'.op = "initSession" /\ last'.ret = <<>> /\ ~intervalRef) =>
              /\ sessionStartRef' = <<now>>
              /\ elapsed' = ZeroElapsed
              /\ intervalRef' ]_vars

\* a recovery found nothing while the removal asked by stopTimer was still
\* in flight, and started afresh
C18_Witness ==
    /\ last.op = "initSession"
    /\ last.ret = <<>>
    /\ ~WasRunning
    /\ RemoveOp \in pendingOps
    /\ sessionStartRef = <<now>>
    /\ elapsed = ZeroElapsed

\* C19: persist then recover. A start with anchor a requests the write of a
\* string that parses back to a, a settled operation stores exactly what was
\* requested, a kill leaves the persisted value, and an initSession that
\* reads a on an idle timer starts it with anchor a and shows the time since
\* a at once: an anchor 30 s old shows "00:30".
C19_PersistRecover ==
    [][ /\ (last'.op \in {"startTimer", "initSession"} /\ ~intervalRef) =>
              /\ \E op \in pendingOps' :
                    /\ pendingOps' = pendingOps \cup {op}
                    /\ op.kind = "set"
                    /\ ParseInt(op.value) = sessionStartRef'[1]
        /\ last'.op = "storage" =>
              \/ storage' = storage
              \/ storage' = <<>>
              \/ \E op \in pendingOps :
                    /\ op.kind = "set"
                    /\ storage' = <<op.value>>
        /\ last'.op = "kill" => storage' = storage
        /\ (last'.op = "initSession" /\ last'.ret # <<>> /\ ~intervalRef) =>
              /\ storage # <<>>
              /\ last'.ret[1] = ParseInt(storage[1])
              /\ sessionStartRef' = last'.ret
              /\ elapsed' = formatElapsed(now - last'.ret[1])
              /\ now - last'.ret[1] = 30000
                    => elapsed' = <<"0", "0", ":", "3", "0">> ]_vars

\* after a kill the recovery read an anchor 30 s old and showed 00:30
C19_Witness ==
    /\ last.op = "initSession"
    /\ last.ret # <<>>
    /\ ~WasRunning
    /\ restarts >= 1
    /\ sessionStartRef = last.ret
    /\ now - sessionStartRef[1] = 30000
    /\ elapsed = <<"0", "0", ":", "3", "0">>

\* C20: once the timer has been stopped the display stays 00:00 and the
\* anchor stays cleared through every step that is not a start, a tick
\* callback dispatched before the stop included.
C20_NoLateTick ==
    [][ /\ last'.op = "stopTimer" => Stopped'
        /\ (Stopped /\ last'.op \notin {"startTimer", "initSession"})
              => Stopped' ]_vars

\* a tick dispatched before stopTimer ran after it and changed nothing
C20_Witness ==
    /\ last.op = "tick"
    /\ mounted
    /\ ~WasRunning
    /\ Stopped

\* periodic tasks alive that the current hook instance created
OwnTasks == intervals - orphaned

C22_StopIdempotent ==
    [][ /\ (last'.op = "stopTimer" /\ Stopped) =>
              /\ Stopped'
              /\ UNCHANGED <<intervals, orphaned, queued, mounted, storage>>
              /\ pendingOps' = pendingOps \cup {RemoveOp}
        /\ (last'.op = "stopTimer" /\ last.op = "stopTimer") =>
              UNCHANGED timerVars ]_vars

\* a timer that had been started was stopped while idle
C22_Witness ==
    /\ last.op = "stopTimer"
    /\ ~WasRunning
    /\ mounted
    /\ initPc = "done"
    /\ Stopped
    /\ RemoveOp \in pendingOps

\* C23: on an "active" signal a timer whose anchor is set shows
\* formatElapsed(now - anchor) at once, an idle timer keeps its display, and
\* in both cases anchor, handle, periodic tasks and persistence are left
\* alone.
C23_Foreground ==
    [][ (last'.op = "handleAppStateChange" /\ last'.email = "active") =>
            /\ UNCHANGED <<sessionStartRef, intervalRef, intervals, orphaned,
                           queued, pendingOps, storage>>
            /\ sessionStartRef # <<>> =>
                  elapsed' = formatElapsed(now - sessionStartRef[1])
            /\ sessionStartRef = <<>> => elapsed' = elapsed ]_vars

\* the app came back 65 s after the start with a stale display corrected
C23_Witness ==
    /\ last.op = "handleAppStateChange"
    /\ last.email = "active"
    /\ WasRunning
    /\ ~queued
    /\ sessionStartRef # <<>>
    /\ now - sessionStartRef[1] = 65000
    /\ elapsed = <<"0", "1", ":", "0", "5">>

\* C27: once the session screen is unmounted no session timer interval is
\* alive, whatever the interleaving of the recovery read with logout and
\* unmount.
C27_NoIntervalAfterUnmount == ~mounted => intervals = 0

\* C28: the store maps each identity to at most one record, and generateOtp,
\* validateOtp and clearOtp on one identity leave every other identity's
\* record as it was (neither created, changed nor deleted), so that every
\* call on another identity returns what it would have returned before.
C28_Isolation ==
    [][ last'.op \in {"generateOtp", "validateOtp", "clearOtp"} =>
            /\ DOMAIN store' \subseteq Emails
            /\ \A b \in Emails \ {last'.email} :
                  /\ b \in DOMAIN store' <=> b \in DOMAIN store
                  /\ b \in DOMAIN store => store'[b] = store[b]
                  /\ \A c \in Codes :
                        validateOtpResult(store', now, b, c).reason
                            = validateOtpResult(store, now, b, c).reason
                  /\ getRemainingSecondsValue(store', now, b)
                        = getRemainingSecondsValue(store, now, b)
                  /\ getRemainingAttemptsValue(store', b)
                        = getRemainingAttemptsValue(store, b) ]_vars

\* one identity signed in while another one's half-used record stayed
C28_Witness ==
    /\ last.op = "validateOtp"
    /\ last.reason = "success"
    /\ \E b \in Emails \ {last.email} :
          /\ b \in DOMAIN store
          /\ store[b].attempts > 0

\* C25: whatever the elapsed time a tick formats, the display is five
\* characters, two digits of minutes, a colon and two digits of seconds,
\* with minutes = floor(floor(ms / 1000) / 60) and seconds =
\* floor(ms / 1000) mod 60.
C25_TwoDigitFormat ==
    (last.op = "tick" /\ sessionStartRef # <<>>) =>
        LET ms == now - sessionStartRef[1]
            totalSeconds == ms \div 1000
        IN  /\ Len(elapsed) = 5
            /\ elapsed[3] = ":"
            /\ IsDigits(SubSeq(elapsed, 1, 2))
            /\ IsDigits(SubSeq(elapsed, 4, 5))
            /\ DigitsValue(SubSeq(elapsed, 1, 2)) = totalSeconds \div 60
            /\ DigitsValue(SubSeq(elapsed, 4, 5)) = totalSeconds % 60
            /\ totalSeconds % 60 \in 0..59

\* C26: the OTP screen has at most one live polling interval, held exactly
\* when countdownRef is set; every poll sets the countdown to
\* getRemainingSeconds of the screen's email and clears the interval when
\* that is 0; a poll happens only while the interval is held, which only a
\* mount or a resend brings back; and with the clock and the interval
\* going, a held interval always comes to be cleared, by a poll that saw 0
\* unless the screen was left first.
C26_Countdown ==
    /\ [](/\ polls \in {0, 1}
          /\ polls = 1 <=> countdownRef
          /\ countdownRef => otpScreen # <<>>)
    /\ [][ /\ last'.op = "poll" =>
                 /\ countdownRef
                 /\ countdown' = getRemainingSecondsValue(store, now,
                                                          last'.email)
                 /\ countdownRef' <=> countdown' > 0
                 /\ polls' = IF countdown' > 0 THEN 1 ELSE 0
           /\ (~countdownRef /\ countdownRef') =>
                 last'.op \in {"otpMount", "handleResend"} ]_vars
    /\ countdownRef ~>
          (~countdownRef /\ (countdown = 0 \/ otpScreen = <<>>))

\* a poll found the code's window used up and cleared its interval
C26_Witness ==
    /\ last.op = "poll"
    /\ last.num = 0
    /\ last.found # <<>>
    /\ otpScreen # <<>>
    /\ countdown = 0
    /\ ~countdownRef
    /\ polls = 0

\* the numbers of the logEvent calls that have pushed their payload
Pushed ==
    {k \in 1..calls : ~\E task \in logTasks : task.pc = "read" /\ task.n = k}

\* how often the payload of call k is in a log
Occurrences(seq, k) == Cardinality({i \in 1..Len(seq) : seq[i].n = k})

\* C29: the log is append-only under every interleaving of init and
\* logEvent: each payload pushed is still in the in-memory log, the log is
\* in call order, and once nothing is in flight the persisted log holds
\* every payload of the run.
C29_AppendOnly ==
    /\ \A k \in Pushed : Occurrences(logs, k) = 1
    /\ \A i, j \in 1..Len(logs) : i < j => logs[i].n < logs[j].n
    /\ (logTasks = {} /\ calls > 0) =>
          /\ persistedLog # <<>>
          /\ \A k \in 1..calls : Occurrences(Parse(persistedLog[1]), k) = 1

\* the payload a handler call has to log, from the record of the call
ExpectedPayload(c) ==
    IF c.op = "handleVerify"
    THEN IF c.reason = "success"
         THEN Payload("otp_validation_success", c.email, <<>>, c.num)
         ELSE Payload("otp_validation_failure", c.email,
                      <<"reason", c.reason>>, c.num)
    ELSE IF c.op = "handleResend"
         THEN Payload("otp_generated", c.email, <<"resend", TRUE>>, c.num)
         ELSE Payload("otp_generated", c.email, <<>>, c.num)

\* C30: handleVerify calls validateOtp unless the input is blank and passes
\* exactly one payload to logEvent, otp_validation_success for success and
\* otherwise otp_validation_failure with the reason validateOtp returned;
\* handleSendOtp and handleResend pass one otp_generated, with resend set
\* by handleResend alone; logEvent appends that payload once, at the call
\* or when its init() returns, and no other step adds to the log.
C30_LoggedOutcome ==
    [][ /\ (last'.op \in {"handleVerify", "handleSendOtp", "handleResend"}
             /\ last'.num # 0) =>
              /\ calls' = calls + 1
              /\ last'.num = calls'
              /\ IF initialized
                 THEN /\ logs' = Append(logs, ExpectedPayload(last'))
                      /\ \A task \in logTasks' \ logTasks : task.pc = "write"
                 ELSE /\ logs' = logs
                      /\ logTasks' = logTasks \cup
                            {ReadTask(calls', <<ExpectedPayload(last')>>)}
        /\ last'.op = "handleVerify" =>
              /\ last'.num = 0 <=> Trim(last'.code) = <<>>
              /\ last'.num # 0 =>
                    last'.reason = validateOtpResult(store, now, last'.email,
                                                     last'.code).reason
              /\ last'.num = 0 => UNCHANGED <<store, logs, logTasks, calls>>
        /\ (last'.op = "initSettle" /\ last'.ret # <<>>) =>
              /\ logs' # <<>>
              /\ logs'[Len(logs')] = last'.ret[1]
              /\ Occurrences(logs', last'.num) = 1
        /\ last'.op \notin {"handleVerify", "handleSendOtp", "handleResend",
                            "initSettle"} => UNCHANGED <<logs, calls>> ]_vars

\* a verify that came too late was logged as a failure with reason expired
C30_Witness ==
    /\ last.op = "handleVerify"
    /\ last.reason = "expired"
    /\ initialized
    /\ calls = 2
    /\ logs # <<>>
    /\ logs[Len(logs)] = Payload("otp_validation_failure", last.email,
                                 <<"reason", "expired">>, 2)

\* what a call of the hook leaves in the memory of the timer
TimerMemory == <<mounted, elapsed, sessionStartRef, intervalRef, intervals,
                 queued, initPc>>

\* C24: a storage call that fails changes nothing in memory: when setItem or
\* removeItem of the anchor settles, or the setItem of the event log, with
\* or without success, the timer, the OTP store and the in-memory log stay
\* as they are; startTimer leaves the timer running with the anchor it was
\* given (or the current time) and the matching display, stopTimer leaves
\* it idle at "00:00", and a verification returns what validateOtp gives
\* for the store and the clock alone, whatever failed before.
C24_FailureSilent ==
    [][ /\ last'.op = "storage" =>
              UNCHANGED <<TimerMemory, store, logs, initialized, countdown>>
        /\ last'.op = "writeSettle" =>
              /\ UNCHANGED <<TimerMemory, store, logs, initialized, countdown>>
              /\ last'.reason = "rejected" => persistedLog' = persistedLog
        /\ (last'.op = "startTimer" /\ ~intervalRef) =>
              LET start == IF last'.ret # <<>> THEN last'.ret[1] ELSE now
              IN  /\ intervalRef'
                  /\ sessionStartRef' = <<start>>
                  /\ elapsed' = formatElapsed(now - start)
        /\ (last'.op = "startTimer" /\ intervalRef) =>
              UNCHANGED <<intervalRef, sessionStartRef, elapsed>>
        /\ last'.op = "stopTimer" =>
              /\ ~intervalRef'
              /\ sessionStartRef' = <<>>
              /\ elapsed' = <<"0", "0", ":", "0", "0">>
        /\ (last'.op = "handleVerify" /\ last'.num # 0) =>
              /\ last'.reason = validateOtpResult(store, now, last'.email,
                                                  last'.code).reason
              /\ store' = validateOtpResult(store, now, last'.email,
                                            last'.code).store ]_vars

\* the setItem of the anchor failed (nothing is stored) and the timer is
\* running with its anchor and display
C24_Witness ==
    /\ last.op = "storage"
    /\ last.email = "set"
    /\ storage = <<>>
    /\ pendingOps = {}
    /\ intervalRef
    /\ sessionStartRef = <<TimerEpoch - 30000>>
    /\ elapsed = <<"0", "0", ":", "3", "0">>

\* C31: soundness. validateOtp returns success only when it met a record
\* for the identity whose age is at most 60,000 ms, whose attempts are
\* below 3 and whose code is the trimmed candidate; a record older than
\* that never yields success, removed or not; and the code of a record is
\* the one the most recent generateOtp for the identity returned, since
\* only generateOtp writes a record's code and creation time.
C31_Soundness ==
    [][ /\ (last'.op = "validateOtp" /\ last'.reason = "success") =>
              /\ last'.email \in DOMAIN store
              /\ now - store[last'.email].createdAt <= OTP_EXPIRY_MS
              /\ store[last'.email].attempts < MAX_ATTEMPTS
              /\ Trim(last'.code) = store[last'.email].code
        /\ (last'.op = "validateOtp" /\ last'.email \in DOMAIN store
              /\ now - store[last'.email].createdAt > OTP_EXPIRY_MS) =>
              last'.reason # "success"
        /\ \A e \in DOMAIN store' :
              IF last'.op = "generateOtp" /\ last'.email = e
              THEN /\ store'[e].code = last'.ret
                   /\ store'[e].createdAt = now
              ELSE /\ e \in DOMAIN store
                   /\ store'[e].code = store[e].code
                   /\ store'[e].createdAt = store[e].createdAt ]_vars

\* a candidate with blanks around the code was accepted at the last moment,
\* after one wrong attempt
C31_Witness ==
    /\ IsValidate
    /\ HadRecord
    /\ last.reason = "success"
    /\ last.code # FoundRecord.code
    /\ FoundAge = OTP_EXPIRY_MS
    /\ FoundRecord.attempts = 1

\* C32: every record on file has attempts in 0..3; a record enters the
\* store with attempts 0 through generateOtp, and the attempts of a record
\* change only by plus 1 in a validateOtp whose comparison failed or to 0
\* in a generateOtp for its identity.
C32_AttemptsRange ==
    /\ [](\A e \in DOMAIN store : store[e].attempts \in 0..MAX_ATTEMPTS)
    /\ [][ \A e \in DOMAIN store' :
              IF e \notin DOMAIN store
              THEN last'.op = "generateOtp" /\ last'.email = e
                                            /\ store'[e].attempts = 0
              ELSE store'[e].attempts # store[e].attempts =>
                     \/ /\ last'.op = "validateOtp"
                        /\ last'.email = e
                        /\ last'.reason \in {"incorrect", "max_attempts"}
                        /\ store[e].code # Trim(last'.code)
                        /\ now - store[e].createdAt <= OTP_EXPIRY_MS
                        /\ store'[e].attempts = store[e].attempts + 1
                     \/ /\ last'.op = "generateOtp"
                        /\ last'.email = e
                        /\ store'[e].attempts = 0 ]_vars

\* a validate with a wrong code on a record that is already at the limit
C32_Witness ==
    /\ IsValidate
    /\ HadRecord
    /\ FoundRecord.attempts = MAX_ATTEMPTS
    /\ FoundRecord.code # Trim(last.code)
    /\ FoundAge <= OTP_EXPIRY_MS
    /\ last.email \in DOMAIN store
    /\ store[last.email].attempts = MAX_ATTEMPTS

\* C33: the countdown and the validator agree on expiry: in every state in
\* which getRemainingSeconds returns 0 for an identity, validateOtp for
\* that identity does not return success, whatever the candidate.
C33_ExpiryAgreement ==
    \A e \in Emails, c \in Candidates :
        getRemainingSecondsValue(store, now, e) = 0 =>
            validateOtpResult(store, now, e, c).reason # "success"

\* C34: the persisted anchor mirrors the timer: once no storage operation
\* is pending, AsyncStorage holds the in-memory anchor when the timer is
\* running and holds nothing when it is not (in SpecMirror a mounted timer
\* whose session was started is idle only after stopTimer), in whatever
\* order the setItem and removeItem calls settled.
C34_PersistedMirrors ==
    pendingOps = {} =>
        IF intervalRef
        THEN storage = <<NumberToString(sessionStartRef[1])>>
        ELSE storage = <<>>

\* C35: a session that begins after a successful validation does not
\* inherit time from before it: the anchor of the timer of a SessionScreen
\* that was mounted after validateOtp succeeded is not earlier than the
\* time of that validateOtp, also when AsyncStorage holds the anchor an
\* earlier process left.
C35_FreshAnchor ==
    (mounted /\ verified # <<>> /\ sessionStartRef # <<>>) =>
        sessionStartRef[1] >= verified[1]

====
